---------------------------- MODULE Spec2Model ----------------------------
(***************************************************************************)
(* MailSlurper SMTP sink: the dispatcher (accept task, worker pool, mail   *)
(* channel) and the per-connection SMTP worker, modelled from              *)
(* src/IMailItemReceiver.go and src/SMTPWorker.go.                         *)
(*                                                                         *)
(* Text is modelled as a sequence of tokens: a keyword, a blank " ", a     *)
(* colon ":", an angle bracket or an address is one token.  The string     *)
(* functions (TrimSpace, Split, Join, HasPrefix) work on these sequences   *)
(* the way the Go functions work on characters.                            *)
(***************************************************************************)
EXTENDS Integers, Sequences, FiniteSets, TLC

(***************************************************************************)
(* Bounds of the model.                                                    *)
(***************************************************************************)
\* pool capacity (config.MaxWorkers)
MaxWorkers == 2
\* connections the listener accepts in a run
MaxConns == 3
\* command lines the clients send in a run, the line that ends a session
\* (QUIT, or the empty read of a dropped connection) not counted
MaxLines == 2

\* receivers registered with Dispatch
MaxReceivers == 2

\* capacity of the buffered mail channel
ChannelCapacity == 1000
\* capacity of the kill channel the caller of Dispatch makes
KillCapacity == 1
\* capacity of killReceiverChannel
KillReceiverCapacity == 1
\* length of the text GenerateID returns
UUIDLength == 36

Workers == 1..MaxWorkers

VARIABLES
    pool,             \* ServerPool: the queue of idle workers
    State,            \* SMTPWorker.State, per worker
    pc,               \* per worker: position of its Work() task
    Connection,       \* SMTPWorker.Connection, per worker: none / open / closed
    Mail,             \* SMTPWorker.Mail, per worker
    command,          \* per worker: Work's local `command`
    err,              \* per worker: Work's local `err` ("nil" for none)
    replies,          \* per worker: the replies its last step wrote to the connection
    linesLeft,        \* command lines the clients will still send
    sent,             \* per worker: MailItems the current session put on the channel
    transactions,     \* per worker: DATA blocks the current session completed with 250
    mailItemChannel,  \* Dispatch's buffered channel of MailItems
    pending,          \* the accept task holds an accepted connection
    accepted,         \* connections accepted so far
    closed,           \* connections the accept task closed when the pool gave no worker
    active,           \* Work() tasks started and not yet returned
    nextID,           \* GenerateID: the next fresh id
    receivers,        \* Dispatch's `receivers`
    killChannel,      \* signals in killChannel
    killReceiverChannel, \* signals in killReceiverChannel
    wgCount,          \* the counter of the WaitGroup
    returned,         \* Dispatch has returned
    killsLeft,        \* kill signals the caller will still send
    listenerErrors,   \* errors handle.Accept() will still return
    atSelect,         \* the accept task is at its select with a signal to see
    acceptKilled,     \* the accept task has received a kill signal
    invoked,          \* per receiver: ids of the items Receive was started for
    spawned,          \* per receiver: Receive tasks that have not returned
    storeErrors,      \* errors database.StoreMail will still return
    atShutdown,       \* ids on the channel when the caller sent the kill signal
    sessionsAtKill    \* workers in a session since the kill signal was sent

\* the state of shutdown that the sessions never touch
shutvars == <<receivers, killChannel, killReceiverChannel, wgCount, returned,
              killsLeft, listenerErrors, storeErrors, acceptKilled, atShutdown>>

\* the state of the receiver invocations
recvvars == <<invoked, spawned>>

vars == <<pool, State, pc, Connection, Mail, command, err, replies, linesLeft, sent,
          transactions, mailItemChannel, pending, accepted, closed, active,
          nextID, receivers, killChannel, killReceiverChannel, wgCount, returned,
          killsLeft, listenerErrors, atSelect, acceptKilled, invoked, spawned,
          storeErrors, atShutdown, sessionsAtKill>>

(***************************************************************************)
(* Strings as token sequences.                                             *)
(***************************************************************************)
\* the upper case of a token
UpperToken(tok) ==
    CASE tok = "helo" -> "HELO"
      [] tok = "quit" -> "QUIT"
      [] tok = "data" -> "DATA"
      [] OTHER -> tok

\* the lower case of a token
LowerToken(tok) ==
    CASE tok = "HELO" -> "helo"
      [] tok = "EHLO" -> "ehlo"
      [] tok = "QUIT" -> "quit"
      [] tok = "DATA" -> "data"
      [] OTHER -> tok

\* strings.ToUpper
ToUpper(s) == [i \in 1..Len(s) |-> UpperToken(s[i])]

\* strings.ToLower
ToLower(s) == [i \in 1..Len(s) |-> LowerToken(s[i])]

IsSpace(tok) == tok \in {" ", "\n", "\t", "\r\n"}

RECURSIVE TrimLeft(_)
TrimLeft(s) ==
    IF s # <<>> /\ IsSpace(Head(s)) THEN TrimLeft(Tail(s)) ELSE s

RECURSIVE TrimRight(_)
TrimRight(s) ==
    IF s # <<>> /\ IsSpace(s[Len(s)])
    THEN TrimRight(SubSeq(s, 1, Len(s) - 1))
    ELSE s

\* strings.TrimSpace
TrimSpace(s) == TrimRight(TrimLeft(s))

\* strings.HasPrefix
HasPrefix(s, p) == Len(s) >= Len(p) /\ SubSeq(s, 1, Len(p)) = p

\* strings.Index(s, tok) >= 0, for a one-token needle
Contains(s, tok) == \E i \in 1..Len(s) : s[i] = tok

\* strings.Split(s, sep) for a one-token separator: the segments between
\* the separators, Len = number of separators + 1
RECURSIVE Split(_, _)
Split(s, sep) ==
    IF ~Contains(s, sep) THEN <<s>>
    ELSE LET i == CHOOSE k \in 1..Len(s) :
                      s[k] = sep /\ \A j \in 1..(k - 1) : s[j] # sep
         IN  <<SubSeq(s, 1, i - 1)>> \o Split(SubSeq(s, i + 1, Len(s)), sep)

\* strings.Join(parts, "")
RECURSIVE Join(_)
Join(parts) ==
    IF parts = <<>> THEN <<>> ELSE Head(parts) \o Join(Tail(parts))


\* strings.Index(s, tok) for a one-token needle: 0-based, -1 when absent
Index(s, tok) ==
    IF Contains(s, tok)
    THEN (CHOOSE k \in 1..Len(s) : s[k] = tok /\ \A j \in 1..(k - 1) : s[j] # tok) - 1
    ELSE -1

(***************************************************************************)
(* Ports: the sanitizer and the e-mail validation service.                 *)
(***************************************************************************)
\* XSSService.SanitizeString: strips script content, leaves safe text alone
SanitizeString(s) ==
    CASE s = "<p>Hi</p><script>" -> "<p>Hi</p>"
      [] s = "Hello<script>" -> "Hello"
      [] OTHER -> s

\* the addresses net/mail parses into a mailbox
ParseableAddresses == {"adam@example.com", "bob@test.com"}

\* EmailValidationService.GetEmailComponents: the mailbox of an address text,
\* bare or in angle brackets; anything else does not parse
GetEmailComponents(addr) ==
    IF Len(addr) = 1 /\ addr[1] \in ParseableAddresses
    THEN [err |-> "nil", Address |-> addr[1]]
    ELSE IF Len(addr) = 3 /\ addr[1] = "<" /\ addr[3] = ">"
            /\ addr[2] \in ParseableAddresses
         THEN [err |-> "nil", Address |-> addr[2]]
         ELSE [err |-> "ParseError", Address |-> ""]

\* EmailValidationService.IsValidEmail
IsValidEmail(a) == a \in ParseableAddresses

(***************************************************************************)
(* Command parser and validators.                                          *)
(***************************************************************************)
\* the verbs the classifier knows, and the command each maps to
KnownVerbs == {"HELO", "EHLO", "MAIL", "RCPT", "DATA", "RSET", "QUIT", "NOOP"}

\* GetCommandFromString: the first blank-delimited token, case-insensitive;
\* an unknown token is UNKNOWN, a line with no token cannot be classified
GetCommandFromString(streamInput) ==
    LET line == TrimSpace(streamInput)
        verb == IF line = <<>> THEN "" ELSE UpperToken(Head(line))
    IN  IF line = <<>> THEN [command |-> "NONE", err |-> "NotFound"]
        ELSE IF verb \in KnownVerbs
             THEN [command |-> IF verb = "EHLO" THEN "HELO" ELSE verb, err |-> "nil"]
             ELSE [command |-> "UNKNOWN", err |-> "nil"]

\* IsValidCommand: the trimmed line begins, case-insensitively, with expected
IsValidCommand(streamInput, expected) ==
    IF HasPrefix(ToUpper(TrimSpace(streamInput)), expected)
    THEN "nil"
    ELSE "InvalidCommand"

\* GetCommandValue: split by the delimiter, join everything right of the
\* first delimiter with "", trim
GetCommandValue(streamInput, cmd, delimiter) ==
    LET split == Split(streamInput, delimiter)
    IN  IF Len(split) < 2
        THEN [err |-> "InvalidCommandFormat", value |-> <<>>]
        ELSE [err |-> "nil", value |-> TrimSpace(Join(Tail(split)))]

\* an error value with what it carries: InvalidCommand(expected),
\* InvalidCommandFormat(expected), InvalidEmail(addr),
\* InvalidHeader(line); NoError is nil
ErrorOf(kind, arg) == [kind |-> kind, arg |-> arg]
NoError == ErrorOf("nil", <<>>)

MAIL_FROM == <<"MAIL", " ", "FROM">>
RCPT_TO == <<"RCPT", " ", "TO">>

(***************************************************************************)
(* The MailItem of a worker.                                               *)
(***************************************************************************)
\* the zero value of the MailItem struct
EmptyMail ==
    [ID |-> 0, FromAddress |-> "", ToAddresses |-> <<>>, Subject |-> "",
     ContentType |-> "", TextBody |-> "", HTMLBody |-> "", Body |-> "",
     Attachments |-> <<>>, InlineAttachments |-> <<>>, Message |-> <<>>]

\* an InitializeMailItem that generates an id only for a MailItem without one
InitializeMailItemKeepsID(mail, id) ==
    [mail EXCEPT !.ToAddresses = <<>>, !.Attachments = <<>>,
                 !.Message = <<>>, !.ID = IF @ = 0 THEN id ELSE @]

\* SMTPWorker.InitializeMailItem: fresh recipient list, attachment list,
\* message tree and id; the other fields keep what they hold
InitializeMailItem(mail, id) ==
    [mail EXCEPT !.ToAddresses = <<>>, !.Attachments = <<>>,
                 !.Message = <<>>, !.ID = id]

(***************************************************************************)
(* The DATA block a client sends, by what the parsers make of it:          *)
(* header: whether textproto reads the header block; ctype, subject: the   *)
(* media type of the Content-Type header ("" without one) and the Subject  *)
(* header; boundary: the boundary parameter of the Content-Type header     *)
(* ("" without one); sep: whether a CRLF CRLF separates header and body;   *)
(* body: the text after the separator; headers: the text before the first  *)
(* CRLF CRLF, which BuildMessages hands to NewHeaderSet; delim: the        *)
(* boundary of the delimiter lines (--delim) in the body ("" without any); *)
(* parts: the parts those lines delimit, in source order, each with its    *)
(* own ctype, boundary, disp(osition), body, delim and parts.              *)
(***************************************************************************)
\* the line break of a header block, one token
CRLF == "\r\n"
\* a part of the source whose body holds no delimiter lines
Leaf(ctype, disp, body) ==
    [ctype |-> ctype, boundary |-> "", disp |-> disp, body |-> body,
     delim |-> "", parts |-> <<>>]

\* a part of the source whose body holds the parts the lines --delim delimit
Nested(ctype, boundary, body, delim, parts) ==
    [ctype |-> ctype, boundary |-> boundary, disp |-> "", body |-> body,
     delim |-> delim, parts |-> parts]

\* a DATA block
Block(header, ctype, boundary, subject, body, headers, delim, parts) ==
    [header |-> header, ctype |-> ctype, boundary |-> boundary,
     subject |-> subject, sep |-> TRUE, body |-> body, headers |-> headers,
     delim |-> delim, parts |-> parts]

TextBlock ==
    Block("ok", "text/plain", "", "Plain Text Test", "Hello<script>",
          <<"Subject", ":", " ", "Plain Text Test", CRLF,
            "Content-Type", ":", " ", "text/plain">>, "", <<>>)

HTMLBlock ==
    Block("ok", "text/html", "", "", "<p>Hi</p><script>",
          <<"Content-Type", ":", " ", "text/html">>, "", <<>>)

\* the Content-Type header is folded twice
MultipartBlock ==
    Block("ok", "multipart/mixed", "a", "Test...", "--a...",
          <<"Content-Type", ":", " ", "multipart/mixed;", CRLF,
            " ", "boundary=a;", CRLF, "\t", "charset=utf-8", CRLF,
            "Subject", ":", " ", "Test...">>, "a",
          << Nested("multipart/alternative", "b", "--b...", "b",
                    << Leaf("text/plain", "", "hi"),
                       Leaf("text/html", "", "<p>hi</p>") >>),
             Leaf("application/pdf", "attachment", "abcd=") >>)

NoPartsBlock ==
    Block("ok", "application/pdf", "", "Test...", "abcd=",
          <<"Content-Type", ":", "application/pdf", " ", CRLF,
            "Subject", " ", ":", " ", "Test...">>, "", <<>>)

\* a header line without a colon, folded: neither textproto nor
\* NewHeaderSet reads it
BadHeaderBlock ==
    Block("malformed", "", "", "", "",
          <<"Subject", ":", " ", "Test", CRLF,
            "X-Mailer", " ", "This is", CRLF, " ", "a test">>, "", <<>>)

\* a header line that ends in a bare LF before the empty line: textproto
\* reads the header block up to the empty line, the text before the first
\* CRLF CRLF goes on into the body, whose line holds no colon
BadMIMEBlock ==
    Block("ok", "", "", "Test...", "hi",
          <<"Subject", ":", " ", "Test...", "\n", CRLF, "hi">>, "", <<>>)

\* a multipart mail whose inner multipart/alternative begins with a part
\* that has no Content-Type header (RFC 2046: such a part is text/plain)
HeaderlessPartBlock ==
    Block("ok", "multipart/mixed", "a", "Report", "--a...",
          <<"Subject", ":", " ", "Report", CRLF,
            "Content-Type", ":", " ", "multipart/mixed;", CRLF,
            "\t", " ", "boundary=a">>, "a",
          << Nested("multipart/alternative", "b", "--b...", "b",
                    << Leaf("", "", "hi"),
                       Leaf("text/html", "", "<p>hi</p>") >>),
             Leaf("application/pdf", "attachment", "abcd=") >>)

\* a multipart mail with markup in its Subject and two text parts whose
\* bodies hold lines --x: the first has no boundary parameter, the second
\* has boundary="x"
DashedTextBlock ==
    Block("ok", "multipart/mixed", "a", "Hello<script>", "--a...",
          <<"Subject", ":", CRLF, " ", "Hello<script>", CRLF,
            "Content-Type", ":", " ", "multipart/mixed;", " ", "boundary=a">>,
          "a",
          << Nested("text/plain", "", "--x...", "x",
                    << Leaf("text/plain", "", "quoted") >>),
             Nested("text/plain", "x", "--x...", "x",
                    << Leaf("text/plain", "", "quoted") >>) >>)

DataBlocks ==
    {TextBlock, HTMLBlock, MultipartBlock, NoPartsBlock, BadHeaderBlock,
     BadMIMEBlock, HeaderlessPartBlock, DashedTextBlock}

(***************************************************************************)
(* The MIME parser, SMTPMessagePart.  A parsed part is a record of its     *)
(* ctype, disp, body and parts (MessageParts).                             *)
(***************************************************************************)
\* the media types that start with multipart/
MultipartTypes ==
    {"multipart/mixed", "multipart/alternative", "multipart/related"}

\* mime.ParseMediaType of a part's Content-Type header: no media type is an
\* error; otherwise the boundary parameter, "" without one
GetBoundaryFromHeaderString(part) ==
    IF part.ctype = "" THEN [err |-> "NoMediaType", boundary |-> ""]
    ELSE [err |-> "nil", boundary |-> part.boundary]

\* multipart.NewReader(body, boundary) and its NextPart calls until an
\* error: the parts it returns and the error that ends them.  An empty
\* boundary is an error, as is a body without a delimiter line of the
\* boundary; after the closing delimiter the error is io.EOF
ReadParts(raw, boundary) ==
    IF boundary = "" THEN [err |-> "BoundaryEmpty", parts |-> <<>>]
    ELSE IF raw.delim # boundary THEN [err |-> "UnexpectedEOF", parts |-> <<>>]
    ELSE [err |-> "EOF", parts |-> raw.parts]

\* the parts of a sequence before the first one whose Content-Type
\* mime.ParseMediaType rejects: those ParseMessages appends, the loop
\* returning at the first error
RECURSIVE Appended(_)
Appended(parts) ==
    IF parts = <<>> \/ GetBoundaryFromHeaderString(Head(parts)).err # "nil"
    THEN <<>>
    ELSE <<Head(parts)>> \o Appended(Tail(parts))

\* SMTPMessagePart.ParseMessages: the MessageParts it appends and the error
\* it returns.  ParseRead is its loop over what the reader returned,
\* NewMessage the message part it builds for one part; the error of the
\* nested ParseMessages is dropped
RECURSIVE ParseMessages(_, _)
RECURSIVE ParseRead(_)
RECURSIVE NewMessage(_)
NewMessage(part) ==
    [ctype |-> part.ctype, disp |-> part.disp, body |-> part.body,
     parts |-> ParseMessages(part,
                  GetBoundaryFromHeaderString(part).boundary).MessageParts]

ParseRead(read) ==
    [err |-> IF Len(Appended(read.parts)) < Len(read.parts) THEN "BoundaryMarker"
             ELSE IF read.err = "EOF" THEN "nil"
             ELSE read.err,
     MessageParts |->
        [i \in 1..Len(Appended(read.parts)) |-> NewMessage(read.parts[i])]]

ParseMessages(raw, boundary) == ParseRead(ReadParts(raw, boundary))

(***************************************************************************)
(* The header set, Set: NewHeaderSet unfolds the header block, splits it   *)
(* into lines and parses each line into an Item.                           *)
(***************************************************************************)
\* the white space that begins a continuation line
IsBlank(tok) == tok \in {" ", "\t"}

\* the text without the blanks it begins with
RECURSIVE SkipBlanks(_)
SkipBlanks(s) ==
    IF s # <<>> /\ IsBlank(Head(s)) THEN SkipBlanks(Tail(s)) ELSE s

\* an UnfoldHeaders that joins only the first continuation line of the block
RECURSIVE UnfoldHeadersFirst(_)
UnfoldHeadersFirst(headers) ==
    IF headers = <<>> THEN <<>>
    ELSE IF Head(headers) = CRLF /\ Len(headers) > 1 /\ IsBlank(headers[2])
         THEN <<" ">> \o SkipBlanks(Tail(headers))
         ELSE <<Head(headers)>> \o UnfoldHeadersFirst(Tail(headers))

\* Set.UnfoldHeaders: every CRLF that a blank follows is replaced, with the
\* blanks after it, by one space
RECURSIVE UnfoldHeaders(_)
UnfoldHeaders(headers) ==
    IF headers = <<>> THEN <<>>
    ELSE IF Head(headers) = CRLF /\ Len(headers) > 1 /\ IsBlank(headers[2])
         THEN <<" ">> \o UnfoldHeaders(SkipBlanks(Tail(headers)))
         ELSE <<Head(headers)>> \o UnfoldHeaders(Tail(headers))

\* InvalidHeader(header): the error, with the line it carries
InvalidHeader(header) == ErrorOf("InvalidHeader", header)

\* Item.ParseHeaderString: the line is split at its first colon; the key
\* and the value are trimmed; a line without a colon is an InvalidHeader
ParseHeaderString(header) ==
    IF ~Contains(header, ":")
    THEN [err |-> InvalidHeader(header), Key |-> <<>>, Values |-> <<>>]
    ELSE [err |-> NoError,
          Key |-> TrimSpace(SubSeq(header, 1, Index(header, ":"))),
          Values |-> <<TrimSpace(SubSeq(header, Index(header, ":") + 2,
                                        Len(header)))>>]

\* the Items of a sequence of header lines, the empty lines left out
RECURSIVE ParseHeaderLines(_)
ParseHeaderLines(lines) ==
    IF lines = <<>> THEN <<>>
    ELSE IF TrimSpace(Head(lines)) = <<>> THEN ParseHeaderLines(Tail(lines))
    ELSE <<ParseHeaderString(Head(lines))>> \o ParseHeaderLines(Tail(lines))

\* the error of the first Item that has one, NoError without any
RECURSIVE FirstError(_)
FirstError(items) ==
    IF items = <<>> THEN NoError
    ELSE IF Head(items).err # NoError THEN Head(items).err
    ELSE FirstError(Tail(items))

\* the header set of parsed lines: no Item at all when a line has failed
HeaderSetOf(items) ==
    [err |-> FirstError(items),
     HeaderItems |-> IF FirstError(items) # NoError THEN <<>>
                     ELSE [i \in 1..Len(items) |->
                              [Key |-> items[i].Key, Values |-> items[i].Values]]]

\* Set.ParseHeaderString: the Items of the lines of an unfolded header block
ParseHeaderSet(unfolded) == HeaderSetOf(ParseHeaderLines(Split(unfolded, CRLF)))

\* NewHeaderSet
NewHeaderSet(headers) == ParseHeaderSet(UnfoldHeaders(headers))

\* SMTPMessagePart.ContentIsMultipart
ContentIsMultipart(block) ==
    IF block.ctype = "" THEN [err |-> "NoMediaType", isMultipart |-> FALSE]
    ELSE [err |-> "nil", isMultipart |-> block.ctype \in MultipartTypes]

\* SMTPMessagePart.BuildMessages
BuildMessages(block) ==
    LET multi == ContentIsMultipart(block)
    IN  IF NewHeaderSet(block.headers).err # NoError
        THEN [err |-> "HeaderSet", MessageParts |-> <<>>]
        ELSE IF multi.err # "nil" THEN [err |-> multi.err, MessageParts |-> <<>>]
        ELSE IF ~multi.isMultipart THEN [err |-> "nil", MessageParts |-> <<>>]
        ELSE ParseMessages(block, block.boundary)

(***************************************************************************)
(* The body extractor.                                                     *)
(***************************************************************************)
\* SMTPWorker.isMIMEType: the part's content type starts with mimeType
isMIMEType(messagePart, mimeType) ==
    IF mimeType = "multipart"
    THEN messagePart.ctype \in MultipartTypes
    ELSE messagePart.ctype = mimeType

\* SMTPWorker.messagePartIsAttachment
messagePartIsAttachment(messagePart) == messagePart.disp = "attachment"

\* SMTPWorker.addAttachment
addAttachment(mail, messagePart) ==
    IF messagePartIsAttachment(messagePart)
    THEN [mail EXCEPT !.Attachments = Append(@, messagePart.body)]
    ELSE [mail EXCEPT !.InlineAttachments = Append(@, messagePart.body)]

\* SMTPWorker.recordMessagePart, and its loop over a sequence of parts
RECURSIVE recordMessagePart(_, _)
RECURSIVE recordMessageParts(_, _)
recordMessagePart(mail, message) ==
    IF isMIMEType(message, "text/plain") /\ mail.TextBody = ""
       /\ ~messagePartIsAttachment(message)
    THEN [mail EXCEPT !.TextBody = message.body]
    ELSE IF isMIMEType(message, "text/html") /\ mail.HTMLBody = ""
            /\ ~messagePartIsAttachment(message)
         THEN [mail EXCEPT !.HTMLBody = message.body]
         ELSE IF isMIMEType(message, "multipart")
              THEN recordMessageParts(mail, message.parts)
              ELSE addAttachment(mail, message)

recordMessageParts(mail, messages) ==
    IF messages = <<>> THEN mail
    ELSE recordMessageParts(recordMessagePart(mail, Head(messages)), Tail(messages))

\* SMTPWorker.getBodyContent: the text after the first CRLF CRLF, "" without one
getBodyContent(block) == IF block.sep THEN block.body ELSE ""

\* SMTPWorker.processTextMail
processTextMail(mail, block) ==
    [mail EXCEPT !.Subject = block.subject, !.ContentType = block.ctype,
                 !.TextBody = getBodyContent(block),
                 !.Body = getBodyContent(block)]

\* SMTPWorker.processHTMLMail
processHTMLMail(mail, block) ==
    [mail EXCEPT !.Subject = block.subject, !.ContentType = block.ctype,
                 !.HTMLBody = getBodyContent(block),
                 !.Body = getBodyContent(block)]

(***************************************************************************)
(* The command handlers.  Each gives the error it returns ("nil" for       *)
(* none), the MailItem it leaves and the replies it wrote, in order.       *)
(***************************************************************************)
Result(e, mail, out) == [err |-> e, Mail |-> mail, out |-> out]

\* SMTPWorker.ProcessHELO
ProcessHELO(streamInput, mail) ==
    LET lowercaseStreamInput == ToLower(streamInput)
        commandCheck == (Index(lowercaseStreamInput, "helo") + 1)
                        + (Index(lowercaseStreamInput, "ehlo") + 1)
        split == Split(streamInput, " ")
    IN  IF commandCheck < 0 THEN Result("InvalidHELO", mail, <<>>)
        ELSE IF Len(split) < 2 THEN Result("InvalidHELOFormat", mail, <<>>)
             ELSE Result("nil", mail, <<"250">>)

\* SMTPWorker.ProcessMAIL
ProcessMAIL(streamInput, mail) ==
    LET valid == IsValidCommand(streamInput, MAIL_FROM)
        from == GetCommandValue(streamInput, MAIL_FROM, ":")
        fromComponents == GetEmailComponents(from.value)
        sanitized == SanitizeString(fromComponents.Address)
    IN  IF valid # "nil" THEN Result(valid, mail, <<>>)
        ELSE IF from.err # "nil" THEN Result(from.err, mail, <<>>)
        ELSE IF fromComponents.err # "nil" THEN Result("InvalidEmail", mail, <<>>)
        ELSE IF ~IsValidEmail(sanitized) THEN Result("InvalidEmail", mail, <<>>)
        ELSE Result("nil", [mail EXCEPT !.FromAddress = sanitized], <<"250">>)

\* a ProcessRCPT that records the recipient before it validates the address
ProcessRCPTAppendsFirst(streamInput, mail) ==
    LET valid == IsValidCommand(streamInput, RCPT_TO)
        to == GetCommandValue(streamInput, RCPT_TO, ":")
        toComponents == GetEmailComponents(to.value)
        sanitized == SanitizeString(toComponents.Address)
        appended == [mail EXCEPT !.ToAddresses = Append(@, sanitized)]
    IN  IF valid # "nil" THEN Result(valid, mail, <<>>)
        ELSE IF to.err # "nil" THEN Result(to.err, mail, <<>>)
        ELSE IF toComponents.err # "nil" THEN Result("InvalidEmail", appended, <<>>)
        ELSE IF ~IsValidEmail(sanitized) THEN Result("InvalidEmail", appended, <<>>)
        ELSE Result("nil", appended, <<"250">>)

\* SMTPWorker.ProcessRCPT
ProcessRCPT(streamInput, mail) ==
    LET valid == IsValidCommand(streamInput, RCPT_TO)
        to == GetCommandValue(streamInput, RCPT_TO, ":")
        toComponents == GetEmailComponents(to.value)
        sanitized == SanitizeString(toComponents.Address)
    IN  IF valid # "nil" THEN Result(valid, mail, <<>>)
        ELSE IF to.err # "nil" THEN Result(to.err, mail, <<>>)
        ELSE IF toComponents.err # "nil" THEN Result("InvalidEmail", mail, <<>>)
        ELSE IF ~IsValidEmail(sanitized) THEN Result("InvalidEmail", mail, <<>>)
        ELSE Result("nil", [mail EXCEPT !.ToAddresses = Append(@, sanitized)],
                    <<"250">>)

\* SMTPMailItem.ProcessFrom: the error it returns and the mail item it leaves
ProcessFrom(streamInput, mailItem) ==
    LET valid == IsValidCommand(streamInput, MAIL_FROM)
        from == GetCommandValue(streamInput, MAIL_FROM, ":")
        fromComponents == GetEmailComponents(from.value)
        sanitized == SanitizeString(fromComponents.Address)
        failed(e) == [err |-> e, Mail |-> mailItem]
    IN  IF valid # "nil" THEN failed(ErrorOf(valid, MAIL_FROM))
        ELSE IF from.err # "nil" THEN failed(ErrorOf(from.err, MAIL_FROM))
        ELSE IF fromComponents.err # "nil"
             THEN failed(ErrorOf("InvalidEmail", from.value))
        ELSE IF ~IsValidEmail(sanitized)
             THEN failed(ErrorOf("InvalidEmail", <<sanitized>>))
        ELSE [err |-> NoError, Mail |-> [mailItem EXCEPT !.FromAddress = sanitized]]

\* SMTPMailItem.ProcessRecipient
ProcessRecipient(streamInput, mailItem) ==
    LET valid == IsValidCommand(streamInput, RCPT_TO)
        to == GetCommandValue(streamInput, RCPT_TO, ":")
        toComponents == GetEmailComponents(to.value)
        sanitized == SanitizeString(toComponents.Address)
        failed(e) == [err |-> e, Mail |-> mailItem]
    IN  IF valid # "nil" THEN failed(ErrorOf(valid, RCPT_TO))
        ELSE IF to.err # "nil" THEN failed(ErrorOf(to.err, RCPT_TO))
        ELSE IF toComponents.err # "nil"
             THEN failed(ErrorOf("InvalidEmail", to.value))
        ELSE IF ~IsValidEmail(sanitized)
             THEN failed(ErrorOf("InvalidEmail", <<sanitized>>))
        ELSE [err |-> NoError,
              Mail |-> [mailItem EXCEPT !.ToAddresses = Append(@, sanitized)]]

\* SMTPWorker.ProcessDATA, its end: Body is the HTML body if there is one,
\* the text body otherwise
ChooseBody(mail) ==
    [mail EXCEPT !.Body = IF mail.HTMLBody # "" THEN mail.HTMLBody
                          ELSE mail.TextBody]

\* SMTPWorker.ProcessDATA for a mail that is neither simple text nor simple
\* HTML; parsed is what Mail.Message.BuildMessages returned and appended
ProcessMultipart(mail, block, parsed) ==
    LET built == [mail EXCEPT !.Message = @ \o parsed.MessageParts]
        headed == [built EXCEPT !.Subject = block.subject,
                                !.ContentType = block.ctype]
    IN  IF parsed.err # "nil"
        THEN Result("ParseFailed", built, <<"354", "554">>)
        ELSE IF Len(headed.Message) = 0
             THEN Result("NoParts", headed, <<"354", "554">>)
             ELSE Result("nil",
                         ChooseBody(recordMessageParts(headed, headed.Message)),
                         <<"354", "250">>)

\* SMTPWorker.ProcessDATA; block is what Reader.ReadDataBlock returns
ProcessDATA(streamInput, mail, block) ==
    LET commandCheck == Index(ToLower(streamInput), "data")
    IN  IF commandCheck < 0 THEN Result("InvalidDATA", mail, <<>>)
        ELSE IF block.header # "ok" THEN Result("MIMEHeader", mail, <<"354">>)
        ELSE IF block.ctype = "text/plain"
             THEN Result("nil", processTextMail(mail, block), <<"354", "250">>)
        ELSE IF block.ctype = "text/html"
             THEN Result("nil", processHTMLMail(mail, block), <<"354", "250">>)
        ELSE ProcessMultipart(mail, block, BuildMessages(block))

\* SMTPWorker.ExecuteCommand
ExecuteCommand(cmd, line, mail, block) ==
    LET streamInput == TrimSpace(line)
        data == ProcessDATA(streamInput, mail, block)
    IN  CASE cmd = "HELO" -> ProcessHELO(streamInput, mail)
          [] cmd = "MAIL" -> ProcessMAIL(streamInput, mail)
          [] cmd = "RCPT" -> ProcessRCPT(streamInput, mail)
          [] cmd = "DATA" ->
                IF data.err # "nil" THEN data
                ELSE Result("nil",
                            [data.Mail EXCEPT !.Body = SanitizeString(@)],
                            data.out)
          [] OTHER -> Result("nil", mail, <<>>)

\* SMTPWorker.TimeoutHasExpired is a reading of the clock: expired is its
\* result.  One pass of the loop of SMTPWorker.Work over a line read from
\* the connection: the worker state, MailItem and replies it leaves
WorkLoop(streamInput, mail, block, expired) ==
    LET found == GetCommandFromString(streamInput)
        done == ExecuteCommand(found.command, streamInput, mail, block)
        step(state, e, m, out) ==
            [State |-> state, err |-> e, command |-> found.command,
             Mail |-> m, out |-> out]
    IN  IF found.err # "nil"
        THEN step("ERROR", found.err, mail, <<>>)
        ELSE IF found.command = "QUIT"
             THEN step(IF expired THEN "ERROR" ELSE "DONE", "nil", mail, <<>>)
             ELSE IF done.err # "nil"
                  THEN step("ERROR", done.err, done.Mail, done.out)
                  ELSE step(IF expired THEN "ERROR" ELSE "WORKING", "nil",
                            done.Mail, done.out)

(***************************************************************************)
(* The lines clients send.                                                 *)
(***************************************************************************)
QuitLine == <<"quit">>
EmptyLine == <<>>

HeloLines == { <<"HELO", " ", "client">>, <<"helo">> }

MailLines ==
    { <<"MAIL", " ", "FROM", ":", " ", "adam@example.com">>,
      <<"MAIL", " ", "FROM", ":", "<", "bob@test.com", ">">>,
      <<"MAIL", " ", "TO", ":", " ", "adam@example.com">>,
      <<"MAIL", " ", "FROM", " ", "adam@example.com">>,
      <<"MAIL", " ", "FROM", ":", " ", "from@", "\n">>,
      <<"MAIL", " ", "FROM", ":">>,
      <<"MAIL", " ", "FROM", ":", " ", "adam@[IPv6", ":", "::1]">> }

RcptLines ==
    { <<"RCPT", " ", "TO", ":", " ", "bob@test.com">>,
      <<"RCPT", " ", "TO", ":", "<", "adam@example.com", ">">>,
      <<"RCPT", " ", "FROM", ":", " ", "bob@test.com">>,
      <<"RCPT", " ", "TO", " ", "bob@test.com">>,
      <<"RCPT", " ", "TO", ":", " ", "from@", "\n">>,
      <<"RCPT", " ", "TO", ":">> }

OtherLines ==
    { <<"DATA">>, <<"RSET">>, <<"NOOP">>, <<"VRFY", " ", "bob@test.com">>,
      QuitLine, EmptyLine }

Lines == HeloLines \cup MailLines \cup RcptLines \cup OtherLines

\* Reader.ReadDataBlock is called for a DATA line only: the blocks that can
\* follow a line
BlocksFor(line) ==
    IF GetCommandFromString(line).command = "DATA" THEN DataBlocks ELSE {TextBlock}

(***************************************************************************)
(* The state after construction: the workers of the pool idle in its       *)
(* queue.  idle is the pool NewServerPool built, lines the number of       *)
(* command lines the clients of the run will send, turned the number of    *)
(* connections accepted so far, each turned away by the pool and closed.   *)
(***************************************************************************)
InitWorkers(idle, lines, turned) ==
    /\ pool = idle
    /\ State = [w \in Workers |-> "IDLE"]
    /\ pc = [w \in Workers |-> "idle"]
    /\ Connection = [w \in Workers |-> "none"]
    /\ Mail = [w \in Workers |-> EmptyMail]
    /\ command = [w \in Workers |-> "NONE"]
    /\ err = [w \in Workers |-> "nil"]
    /\ replies = [w \in Workers |-> <<>>]
    /\ linesLeft = lines
    /\ sent = [w \in Workers |-> 0]
    /\ transactions = [w \in Workers |-> 0]
    /\ mailItemChannel = <<>>
    /\ pending = FALSE
    /\ accepted = turned
    /\ closed = turned
    /\ active = 0
    /\ nextID = 1

\* Dispatch has made its channels, called wg.Add(2) and started its two
\* tasks; recv are the receivers it was given, kills the kill signals its
\* caller will send, errors the errors the listener and the storage will
\* each return
InitDispatcher(recv, kills, errors) ==
    /\ receivers = recv
    /\ killChannel = 0
    /\ killReceiverChannel = 0
    /\ wgCount = 2
    /\ returned = FALSE
    /\ killsLeft = kills
    /\ listenerErrors = errors
    /\ atSelect = FALSE
    /\ acceptKilled = FALSE
    /\ invoked = [r \in recv |-> <<>>]
    /\ spawned = [r \in recv |-> 0]
    /\ storeErrors = errors
    /\ atShutdown = {}
    /\ sessionsAtKill = {}

\* a run without receivers in which the caller never shuts Dispatch down
InitWith(idle, lines) ==
    InitWorkers(idle, lines, 0) /\ InitDispatcher({}, 0, 0)

\* a pool of MaxWorkers workers, clients that send command lines
Init == InitWith([i \in 1..MaxWorkers |-> i], MaxLines)

\* a pool of MaxWorkers workers, clients that only close their sessions
\* (QUIT, or a dropped connection)
InitPool == InitWith([i \in 1..MaxWorkers |-> i], 0)

\* a pool of one worker (maxWorkers = 1) that has turned one connection
\* away, clients that send command lines
InitSession == InitWorkers(<<1>>, MaxLines, 1) /\ InitDispatcher({}, 0, 0)

\* a pool of one worker, clients that only close their sessions
InitClose == InitWith(<<1>>, 0)

\* a pool of one worker that has turned one connection away, clients that
\* send one command line less than MaxLines, and MaxReceivers receivers
\* that store every item
InitDeliver ==
    InitWorkers(<<1>>, MaxLines - 1, 1) /\ InitDispatcher(1..MaxReceivers, 0, 0)

\* a pool of one worker, clients that only close their sessions,
\* MaxReceivers receivers, a caller that sends one kill signal and a
\* listener that fails once
InitDispatch ==
    InitWorkers(<<1>>, 0, 0) /\ InitDispatcher(1..MaxReceivers, 1, 1)

(***************************************************************************)
(* The accept task of Dispatch.                                            *)
(***************************************************************************)
\* handle.Accept() returns a connection
Accept ==
    /\ ~atSelect
    /\ ~pending
    /\ accepted < MaxConns
    /\ pending' = TRUE
    /\ accepted' = accepted + 1
    /\ UNCHANGED <<pool, State, pc, Connection, Mail, command, err, replies,
                   linesLeft, sent,
                   transactions, mailItemChannel, active, nextID>>
    /\ UNCHANGED <<closed, shutvars, recvvars, atSelect, sessionsAtKill>>

\* ServerPool.JoinQueue: the worker goes to the back of the idle queue
JoinQueue(queue, w) == Append(queue, w)

\* ServerPool.NextWorker hands out the worker at the head of the idle queue
\* (it blocks while the queue is empty); SMTPWorker.Prepare binds it to the
\* connection; `go worker.Work()` starts its session task
NextWorker(w) ==
    /\ pending
    /\ pool # <<>>
    /\ w = Head(pool)
    /\ pool' = Tail(pool)
    /\ State' = [State EXCEPT ![w] = "WORKING"]
    /\ Connection' = [Connection EXCEPT ![w] = "open"]
    /\ pc' = [pc EXCEPT ![w] = "start"]
    /\ active' = active + 1
    /\ pending' = FALSE
    /\ UNCHANGED <<Mail, command, err, replies, linesLeft, sent, transactions,
                   mailItemChannel, accepted, nextID>>
    /\ atSelect' = (killChannel > 0)
    /\ UNCHANGED <<closed, shutvars, recvvars, sessionsAtKill>>

\* a Dispatch that goes on to the next Accept without closing the connection
\* the pool gave no worker for
NextWorkerErrorLeavesOpen ==
    /\ pending
    /\ pool # <<>>
    /\ pending' = FALSE
    /\ UNCHANGED <<pool, State, pc, Connection, Mail, command, err, replies,
                   linesLeft, sent,
                   transactions, mailItemChannel, accepted, active, nextID>>
    /\ atSelect' = (killChannel > 0)
    /\ UNCHANGED <<closed, shutvars, recvvars, sessionsAtKill>>

\* ServerPool.NextWorker returns an error: Dispatch closes the connection
\* and goes on to the next Accept
NextWorkerError ==
    /\ pending
    /\ pool # <<>>
    /\ pending' = FALSE
    /\ closed' = closed + 1
    /\ UNCHANGED <<pool, State, pc, Connection, Mail, command, err, replies,
                   linesLeft, sent,
                   transactions, mailItemChannel, accepted, active, nextID>>
    /\ atSelect' = (killChannel > 0)
    /\ UNCHANGED <<shutvars, recvvars, sessionsAtKill>>

(***************************************************************************)
(* The session task, SMTPWorker.Work.                                      *)
(***************************************************************************)
\* InitializeMailItem and Writer.SayHello
WorkStart(w) ==
    /\ pc[w] = "start"
    /\ Mail' = [Mail EXCEPT ![w] = InitializeMailItem(@, nextID)]
    /\ nextID' = nextID + 1
    /\ replies' = [replies EXCEPT ![w] = <<"220">>]
    /\ command' = [command EXCEPT ![w] = "NONE"]
    /\ err' = [err EXCEPT ![w] = "nil"]
    /\ pc' = [pc EXCEPT ![w] = "loop"]
    /\ UNCHANGED <<pool, State, Connection, linesLeft, sent, transactions,
                   mailItemChannel, pending, accepted, active>>
    /\ UNCHANGED <<closed, shutvars, recvvars, atSelect, sessionsAtKill>>

\* one pass of the loop: read a line, classify, execute, check the timeout
WorkLine(w, line, block, expired) ==
    /\ pc[w] = "loop"
    /\ State[w] \notin {"DONE", "ERROR"}
    /\ linesLeft > 0 \/ line \in {QuitLine, EmptyLine}
    /\ LET r == WorkLoop(line, Mail[w], block, expired)
       IN  /\ State' = [State EXCEPT ![w] = r.State]
           /\ Mail' = [Mail EXCEPT ![w] = r.Mail]
           /\ command' = [command EXCEPT ![w] = r.command]
           /\ err' = [err EXCEPT ![w] = r.err]
           /\ replies' = [replies EXCEPT ![w] = r.out]
           /\ transactions' =
                 [transactions EXCEPT
                     ![w] = IF r.command = "DATA" /\ r.err = "nil"
                            THEN @ + 1 ELSE @]
    /\ linesLeft' = IF line \in {QuitLine, EmptyLine} THEN linesLeft
                     ELSE linesLeft - 1
    /\ UNCHANGED <<pool, pc, Connection, sent, mailItemChannel, pending,
                   accepted, active, nextID>>
    /\ UNCHANGED <<closed, shutvars, recvvars, atSelect, sessionsAtKill>>

\* a Work that sends the MailItem whatever the session's end
DeliversAlways(state) == TRUE

\* the condition under which Work sends the MailItem to the Receiver channel
Delivers(state) == state # "ERROR"

\* a Work that rejoins the pool's queue as soon as the connection is closed,
\* before its task has returned
WorkFinishRejoins(w) ==
    /\ pc[w] = "loop"
    /\ State[w] \in {"DONE", "ERROR"}
    /\ replies' = [replies EXCEPT ![w] = <<"221">>]
    /\ Connection' = [Connection EXCEPT ![w] = "closed"]
    /\ IF State[w] # "ERROR"
       THEN /\ mailItemChannel' = Append(mailItemChannel, Mail[w])
            /\ sent' = [sent EXCEPT ![w] = @ + 1]
       ELSE UNCHANGED <<mailItemChannel, sent>>
    /\ pool' = Append(pool, w)
    /\ pc' = [pc EXCEPT ![w] = "rejoin"]
    /\ UNCHANGED <<State, Mail, command, err, linesLeft, transactions,
                   pending, accepted, active, nextID>>
    /\ UNCHANGED <<closed, shutvars, recvvars, atSelect, sessionsAtKill>>

\* a Work that says goodbye and closes only when the session ended in DONE
WorkFinishUnlessError(w) ==
    /\ pc[w] = "loop"
    /\ State[w] = "DONE"
    /\ replies' = [replies EXCEPT ![w] = <<"221">>]
    /\ Connection' = [Connection EXCEPT ![w] = "closed"]
    /\ Len(mailItemChannel) < ChannelCapacity
    /\ mailItemChannel' = Append(mailItemChannel, Mail[w])
    /\ sent' = [sent EXCEPT ![w] = @ + 1]
    /\ pc' = [pc EXCEPT ![w] = "rejoin"]
    /\ UNCHANGED <<pool, State, Mail, command, err, linesLeft, transactions,
                   pending, accepted, active, nextID>>
    /\ UNCHANGED <<closed, shutvars, recvvars, atSelect, sessionsAtKill>>

\* the loop has ended: Writer.SayGoodbye, Connection.Close, and
\* `Receiver <- Mail` unless the session ended in ERROR (the send waits
\* while the channel is full)
WorkFinish(w) ==
    /\ pc[w] = "loop"
    /\ State[w] \in {"DONE", "ERROR"}
    /\ replies' = [replies EXCEPT ![w] = <<"221">>]
    /\ Connection' = [Connection EXCEPT ![w] = "closed"]
    /\ IF Delivers(State[w])
       THEN /\ Len(mailItemChannel) < ChannelCapacity
            /\ mailItemChannel' = Append(mailItemChannel, Mail[w])
            /\ sent' = [sent EXCEPT ![w] = @ + 1]
       ELSE UNCHANGED <<mailItemChannel, sent>>
    /\ pc' = [pc EXCEPT ![w] = "rejoin"]
    /\ UNCHANGED <<pool, State, Mail, command, err, linesLeft, transactions,
                   pending, accepted, active, nextID>>
    /\ UNCHANGED <<closed, shutvars, recvvars, atSelect, sessionsAtKill>>

\* a Work that returns without rejoining the queue when the session failed
WorkRejoinUnlessError(w) ==
    /\ pc[w] = "rejoin"
    /\ State' = [State EXCEPT ![w] = "IDLE"]
    /\ pool' = IF State[w] = "ERROR" THEN pool ELSE Append(pool, w)
    /\ pc' = [pc EXCEPT ![w] = "idle"]
    /\ active' = active - 1
    /\ command' = [command EXCEPT ![w] = "NONE"]
    /\ err' = [err EXCEPT ![w] = "nil"]
    /\ replies' = [replies EXCEPT ![w] = <<>>]
    /\ sent' = [sent EXCEPT ![w] = 0]
    /\ transactions' = [transactions EXCEPT ![w] = 0]
    /\ UNCHANGED <<Connection, Mail, linesLeft, mailItemChannel, pending,
                   accepted, nextID>>
    /\ sessionsAtKill' = sessionsAtKill \ {w}
    /\ UNCHANGED <<closed, shutvars, recvvars, atSelect>>

\* State = IDLE, rejoinWorkerQueue, and the task returns
WorkRejoin(w) ==
    /\ pc[w] = "rejoin"
    /\ State' = [State EXCEPT ![w] = "IDLE"]
    /\ pool' = JoinQueue(pool, w)
    /\ pc' = [pc EXCEPT ![w] = "idle"]
    /\ active' = active - 1
    /\ command' = [command EXCEPT ![w] = "NONE"]
    /\ err' = [err EXCEPT ![w] = "nil"]
    /\ replies' = [replies EXCEPT ![w] = <<>>]
    /\ sent' = [sent EXCEPT ![w] = 0]
    /\ transactions' = [transactions EXCEPT ![w] = 0]
    /\ UNCHANGED <<Connection, Mail, linesLeft, mailItemChannel, pending,
                   accepted, nextID>>
    /\ sessionsAtKill' = sessionsAtKill \ {w}
    /\ UNCHANGED <<closed, shutvars, recvvars, atSelect>>

(***************************************************************************)
(* The fan-out task of Dispatch.                                           *)
(***************************************************************************)
\* a fan-out task that takes the newest item of the channel
FanOutReceiveNewest ==
    /\ mailItemChannel # <<>>
    /\ mailItemChannel' = SubSeq(mailItemChannel, 1, Len(mailItemChannel) - 1)
    /\ invoked' = [r \in receivers |->
                      Append(invoked[r], mailItemChannel[Len(mailItemChannel)].ID)]
    /\ spawned' = [r \in receivers |-> spawned[r] + 1]
    /\ UNCHANGED <<pool, State, pc, Connection, Mail, command, err, replies,
                   linesLeft, sent,
                   transactions, pending, accepted, active, nextID>>
    /\ UNCHANGED <<closed, shutvars, atSelect, sessionsAtKill>>

\* a fan-out task that does not start a receiver whose earlier Receive has
\* not returned
FanOutReceiveSkipsBusy ==
    /\ mailItemChannel # <<>>
    /\ mailItemChannel' = Tail(mailItemChannel)
    /\ invoked' = [r \in receivers |->
                      IF spawned[r] > 0 THEN invoked[r]
                      ELSE Append(invoked[r], Head(mailItemChannel).ID)]
    /\ spawned' = [r \in receivers |->
                      IF spawned[r] > 0 THEN spawned[r]
                      ELSE spawned[r] + 1]
    /\ UNCHANGED <<pool, State, pc, Connection, Mail, command, err, replies,
                   linesLeft, sent,
                   transactions, pending, accepted, active, nextID>>
    /\ UNCHANGED <<closed, shutvars, atSelect, sessionsAtKill>>

\* item := <-mailItemChannel, and `go r.Receive(&item, wg)` for each receiver
FanOutReceive ==
    /\ mailItemChannel # <<>>
    /\ mailItemChannel' = Tail(mailItemChannel)
    /\ invoked' = [r \in receivers |->
                      Append(invoked[r], Head(mailItemChannel).ID)]
    /\ spawned' = [r \in receivers |-> spawned[r] + 1]
    /\ UNCHANGED <<pool, State, pc, Connection, Mail, command, err, replies,
                   linesLeft, sent,
                   transactions, pending, accepted, active, nextID>>
    /\ UNCHANGED <<closed, shutvars, atSelect, sessionsAtKill>>

\* the state of the sessions and of the accept task's connection
workvars == <<pool, State, pc, Connection, Mail, command, err, replies,
              linesLeft, sent, transactions, pending, accepted, closed, active,
              nextID>>

\* <-killReceiverChannel: wg.Done(), and `break` leaves the select, not the
\* loop
FanOutKill ==
    /\ killReceiverChannel > 0
    /\ killReceiverChannel' = killReceiverChannel - 1
    /\ wgCount' = wgCount - 1
    /\ UNCHANGED <<workvars, mailItemChannel, recvvars, atSelect, sessionsAtKill,
                   receivers, killChannel, returned, killsLeft, listenerErrors,
                   storeErrors, acceptKilled, atShutdown>>

(***************************************************************************)
(* DatabaseReceiver.Receive, one task per receiver and item.               *)
(***************************************************************************)
\* Receive runs: wg.Add(1), then StoreMail; with an error Receive returns
\* it without wg.Done(), otherwise it calls wg.Done()
Receive(r, stored) ==
    /\ spawned[r] > 0
    /\ stored \/ storeErrors > 0
    /\ spawned' = [spawned EXCEPT ![r] = @ - 1]
    /\ storeErrors' = IF stored THEN storeErrors ELSE storeErrors - 1
    /\ wgCount' = IF stored THEN wgCount ELSE wgCount + 1
    /\ UNCHANGED <<workvars, mailItemChannel, invoked, atSelect,
                   sessionsAtKill, receivers, killChannel, killReceiverChannel,
                   returned, killsLeft, listenerErrors, acceptKilled,
                   atShutdown>>

(***************************************************************************)
(* Shutdown.                                                               *)
(***************************************************************************)
\* the caller of Dispatch: killChannel <- true
Kill ==
    /\ killsLeft > 0
    /\ killChannel < KillCapacity
    /\ killChannel' = killChannel + 1
    /\ killsLeft' = killsLeft - 1
    /\ atShutdown' = {mailItemChannel[i].ID : i \in 1..Len(mailItemChannel)}
    /\ sessionsAtKill' = {w \in Workers : pc[w] # "idle"}
    /\ UNCHANGED <<workvars, mailItemChannel, recvvars, atSelect, receivers,
                   killReceiverChannel, wgCount, returned, listenerErrors,
                   storeErrors, acceptKilled>>

\* Dispatch itself: <-killChannel, wg.Done(), killReceiverChannel <- true,
\* return
DispatchKill ==
    /\ ~returned
    /\ killChannel > 0
    /\ killReceiverChannel < KillReceiverCapacity
    /\ killChannel' = killChannel - 1
    /\ wgCount' = wgCount - 1
    /\ killReceiverChannel' = killReceiverChannel + 1
    /\ returned' = TRUE
    /\ UNCHANGED <<workvars, mailItemChannel, recvvars, atSelect, sessionsAtKill,
                   receivers, killsLeft, listenerErrors, storeErrors, acceptKilled,
                   atShutdown>>

\* the accept task, `case <-killChannel: break`: the break leaves the
\* select, and the loop goes on to the next select and to handle.Accept()
AcceptSelectKill ==
    /\ atSelect
    /\ killChannel > 0
    /\ killChannel' = killChannel - 1
    /\ acceptKilled' = TRUE
    /\ atSelect' = FALSE
    /\ UNCHANGED <<workvars, mailItemChannel, recvvars, sessionsAtKill,
                   receivers, killReceiverChannel, wgCount, returned, killsLeft,
                   listenerErrors, storeErrors, atShutdown>>

\* the accept task, `default:` when the signal it could have seen is gone
AcceptSelectDefault ==
    /\ atSelect
    /\ killChannel = 0
    /\ atSelect' = FALSE
    /\ UNCHANGED <<workvars, mailItemChannel, recvvars, sessionsAtKill, shutvars>>

\* handle.Accept() returns an error: killChannel <- true, and `break` leaves
\* the select
AcceptError ==
    /\ ~pending
    /\ ~atSelect
    /\ listenerErrors > 0
    /\ killChannel < KillCapacity
    /\ listenerErrors' = listenerErrors - 1
    /\ killChannel' = killChannel + 1
    /\ atSelect' = TRUE
    /\ UNCHANGED <<workvars, mailItemChannel, recvvars, sessionsAtKill,
                   receivers, killReceiverChannel, wgCount, returned, killsLeft,
                   storeErrors, acceptKilled, atShutdown>>

Next ==
    \/ Accept
    \/ \E w \in Workers : NextWorker(w)
    \/ NextWorkerError
    \/ \E w \in Workers : WorkStart(w)
    \/ \E w \in Workers, line \in Lines, expired \in BOOLEAN :
          \E block \in BlocksFor(line) : WorkLine(w, line, block, expired)
    \/ \E w \in Workers : WorkFinish(w)
    \/ \E w \in Workers : WorkRejoin(w)
    \/ FanOutReceive

Spec == Init /\ [][Next]_vars

SpecPool == InitPool /\ [][Next]_vars

SpecSession == InitSession /\ [][Next]_vars

\* the sessions of one worker and the fan-out of their items to the receivers
SpecDeliver == InitDeliver /\ [][Next]_vars

\* the sessions, the receivers and the shutdown of Dispatch
NextDispatch ==
    \/ Next
    \/ FanOutKill
    \/ \E r \in receivers, stored \in BOOLEAN : Receive(r, stored)
    \/ Kill
    \/ DispatchKill
    \/ AcceptSelectKill
    \/ AcceptSelectDefault
    \/ AcceptError

SpecDispatch == InitDispatch /\ [][NextDispatch]_vars

\* a step of the Work() task of worker w
WorkStep(w) ==
    \/ WorkStart(w)
    \/ \E line \in Lines, expired \in BOOLEAN :
          \E block \in BlocksFor(line) : WorkLine(w, line, block, expired)
    \/ WorkFinish(w)
    \/ WorkRejoin(w)

\* the goroutines keep running: a Work() task that can take its next step
\* takes it (Reader.Read returns within its bound, whatever the client
\* does), and the fan-out goroutine receives when the channel holds an item
WorkFairness ==
    /\ \A w \in Workers : WF_vars(WorkStep(w))
    /\ WF_vars(FanOutReceive)

SpecCloseFair == InitClose /\ [][Next]_vars /\ WorkFairness

\* every goroutine keeps running: the sessions and the fan-out task as
\* above, Dispatch itself, the accept task at its select, and each Receive
DispatchFairness ==
    /\ WorkFairness
    /\ WF_vars(DispatchKill)
    /\ WF_vars(FanOutKill)
    /\ WF_vars(AcceptSelectKill \/ AcceptSelectDefault)
    /\ \A r \in 1..MaxReceivers : WF_vars(\E stored \in BOOLEAN : Receive(r, stored))

SpecDispatchFair == InitDispatch /\ [][NextDispatch]_vars /\ DispatchFairness

(***************************************************************************)
(* Properties.                                                             *)
(***************************************************************************)
\* the number of times worker w stands in the pool's idle queue
InPool(w) == Cardinality({i \in 1..Len(pool) : pool[i] = w})

\* the errors a command handler returns for a bad HELO, MAIL FROM or RCPT TO
PerCommandErrors ==
    {"InvalidHELOFormat", "InvalidCommand", "InvalidCommandFormat", "InvalidEmail"}

\* the reply code the error taxonomy gives an error kind
ReplyFor(e) ==
    CASE e = "InvalidCommand" -> "500"
      [] e = "InvalidCommandFormat" -> "501"
      [] e = "InvalidEmail" -> "550"
      [] OTHER -> "554"

C2_NoDeliveryOnError ==
    \A w \in Workers :
        /\ pc[w] \in {"start", "loop"} => sent[w] = 0
        /\ (pc[w] = "rejoin" /\ State[w] = "ERROR") =>
              /\ sent[w] = 0
              /\ \A i \in 1..Len(mailItemChannel) :
                    mailItemChannel[i].ID # Mail[w].ID

\* C2 witness: a session that collected a sender has ended in ERROR and is
\* past the point where Work sends
C2_ErrorSessionEnded ==
    \E w \in Workers :
        pc[w] = "rejoin" /\ State[w] = "ERROR" /\ Mail[w].FromAddress # ""

\* C3: a worker stands in the idle queue exactly once when its task is not
\* running and not at all while it runs; a worker in the queue is IDLE and
\* its connection is not open; a worker about to rejoin has ended its loop
\* (DONE or ERROR) and closed its connection.
C3_JoinOncePerSession ==
    \A w \in Workers :
        /\ InPool(w) = IF pc[w] = "idle" THEN 1 ELSE 0
        /\ InPool(w) > 0 => State[w] = "IDLE" /\ Connection[w] # "open"
        /\ pc[w] = "rejoin" =>
              State[w] \in {"DONE", "ERROR"} /\ Connection[w] = "closed"

\* C3 witness: a worker whose session ended in ERROR is back in the queue
\* while another session runs
C3_Rejoined ==
    \E w, v \in Workers :
        /\ pc[w] = "idle" /\ Connection[w] = "closed" /\ InPool(w) = 1
        /\ pc[v] = "rejoin" /\ State[v] = "ERROR"

\* C4: a session that ends with QUIT has put as many MailItems on the
\* channel as DATA blocks it completed, and a session with no completed DATA
\* has put none.
C4_OneItemPerTransaction ==
    \A w \in Workers :
        pc[w] = "rejoin" =>
            /\ State[w] = "DONE" => sent[w] = transactions[w]
            /\ transactions[w] = 0 => sent[w] = 0

\* C5: a pass of the loop in which HELO, MAIL FROM or RCPT TO fails, with no
\* timeout, leaves the worker WORKING, so that the next line is read.
C5_CommandErrorKeepsSession ==
    [][\A w \in Workers, line \in HeloLines \cup MailLines \cup RcptLines :
          (/\ WorkLine(w, line, TextBlock, FALSE)
           /\ err'[w] \in PerCommandErrors)
          => State'[w] = "WORKING"]_vars

\* C6: a failing MAIL FROM or RCPT TO is answered with exactly one reply,
\* 500 for InvalidCommand, 501 for InvalidCommandFormat, 550 for InvalidEmail.
C6_FailureReplied ==
    \A w \in Workers :
        (pc[w] = "loop" /\ command[w] \in {"MAIL", "RCPT"} /\ err[w] # "nil")
        => replies[w] = <<ReplyFor(err[w])>>

\* C7: a pass of the loop in which MAIL FROM or RCPT TO fails leaves every
\* field of the worker's MailItem as it was.
C7_FailureLeavesMail ==
    [][\A w \in Workers :
          (pc[w] = "loop" /\ pc'[w] = "loop" /\ command'[w] \in {"MAIL", "RCPT"}
           /\ err'[w] # "nil" /\ State[w] = "WORKING")
          => Mail'[w] = Mail[w]]_vars

\* C7 witness: RCPT TO has failed on a MailItem that holds a sender and a
\* recipient
C7_RcptFailed ==
    \E w \in Workers :
        /\ pc[w] = "loop" /\ command[w] = "RCPT" /\ err[w] = "InvalidEmail"
        /\ Mail[w].ToAddresses # <<>>

\* C8: a pass of the loop in which DATA fails (header block, MIME parse or
\* empty part tree), with no timeout, leaves the worker WORKING.
C8_DataErrorKeepsSession ==
    [][\A w \in Workers, block \in DataBlocks :
          (/\ WorkLine(w, <<"DATA">>, block, FALSE)
           /\ err'[w] # "nil")
          => State'[w] = "WORKING"]_vars

\* C9: a line whose first token is no known verb is answered with one error
\* reply and, with no timeout, leaves the worker WORKING.
C9_UnknownVerbReplied ==
    [][\A w \in Workers, line \in Lines :
          (/\ WorkLine(w, line, TextBlock, FALSE)
           /\ command'[w] = "UNKNOWN")
          => /\ State'[w] = "WORKING"
             /\ Len(replies'[w]) = 1
             /\ replies'[w][1] \in {"500", "501", "502", "554"}]_vars

\* C10: RSET is answered with 250, clears the sender and the recipients of
\* the in-progress mail, and the session goes on.
C10_ResetClears ==
    [][\A w \in Workers :
          WorkLine(w, <<"RSET">>, TextBlock, FALSE)
          => /\ replies'[w] = <<"250">>
             /\ Mail'[w].FromAddress = ""
             /\ Mail'[w].ToAddresses = <<>>
             /\ State'[w] = "WORKING"]_vars

\* the changes of SMTPWorker.State the worker's life cycle allows
AllowedTransitions ==
    { <<"IDLE", "WORKING">>, <<"WORKING", "DONE">>, <<"WORKING", "ERROR">>,
      <<"DONE", "IDLE">>, <<"ERROR", "IDLE">> }

\* the commands of a session that goes on after them
SessionCommands == {"HELO", "MAIL", "RCPT", "DATA", "RSET", "NOOP"}

\* C11: a pass of the loop whose timeout check finds the budget exceeded
\* leaves the worker in ERROR, and when that session ends the worker writes
\* nothing more to the connection (no 221 either) and closes it.
C11_TimeoutSilent ==
    [][\A w \in Workers :
          /\ \A line \in Lines :
                \A block \in BlocksFor(line) :
                    (WorkLine(w, line, block, TRUE) /\ err'[w] = "nil")
                    => State'[w] = "ERROR"
          /\ (/\ pc[w] = "loop" /\ pc'[w] = "rejoin"
              /\ State[w] = "ERROR" /\ err[w] = "nil")
             => replies'[w] = <<>> /\ Connection'[w] = "closed"]_vars

\* C12: SMTPWorker.State changes only along IDLE -> WORKING, WORKING -> DONE,
\* WORKING -> ERROR, DONE -> IDLE and ERROR -> IDLE; a pass of the loop that
\* processes QUIT leaves the worker DONE, not ERROR, and the end of a
\* session whose last command was QUIT puts its mail on the channel.
C12_StateTransitions ==
    [][\A w \in Workers :
          /\ State'[w] # State[w] => <<State[w], State'[w]>> \in AllowedTransitions
          /\ (pc[w] = "loop" /\ State[w] = "WORKING" /\ command'[w] = "QUIT")
             => State'[w] = "DONE"
          /\ (pc[w] = "loop" /\ pc'[w] = "rejoin" /\ command[w] = "QUIT")
             => sent'[w] = sent[w] + 1]_vars

C14_ReplyBeforeNextRead ==
    [][\A w \in Workers, line \in Lines :
          \A block \in BlocksFor(line) :
              (/\ WorkLine(w, line, block, FALSE)
               /\ command'[w] \in SessionCommands
               /\ State'[w] = "WORKING")
              => replies'[w] # <<>>]_vars

\* the ids of a sequence of MailItems
IDs(items) == [i \in 1..Len(items) |-> items[i].ID]

\* the elements of a sequence
Range(seq) == {seq[i] : i \in 1..Len(seq)}

\* no element of the sequence occurs twice
NoDuplicates(seq) == Cardinality(Range(seq)) = Len(seq)

\* the fan-out task has received its kill signal
FanOutKilled == returned /\ killReceiverChannel = 0

\* a step in which the accept task accepts, asks the pool or starts a session
AcceptTaskActs ==
    accepted' # accepted \/ pending' # pending \/ active' > active

\* a step in which the fan-out task receives an item
FanOutActs ==
    Len(mailItemChannel') < Len(mailItemChannel) \/ invoked' # invoked

\* C15: the channel is first in, first out: a step either leaves it alone,
\* or a session adds one item at its end, or the fan-out task takes the item
\* at its head and starts every receiver for that item, after the items it
\* started them for before.
C15_FanOutInOrder ==
    [][\/ UNCHANGED <<mailItemChannel, invoked>>
       \/ /\ Len(mailItemChannel') = Len(mailItemChannel) + 1
          /\ SubSeq(mailItemChannel', 1, Len(mailItemChannel)) = mailItemChannel
          /\ invoked' = invoked
       \/ /\ mailItemChannel # <<>>
          /\ mailItemChannel' = Tail(mailItemChannel)
          /\ \A r \in receivers :
                invoked'[r] = Append(invoked[r], Head(mailItemChannel).ID)]_vars

\* C15 witness: the receivers were started for an item while two later items
\* wait on the channel
C15_LaterItemsWait ==
    /\ Len(mailItemChannel) >= 2
    /\ \E r \in receivers : Len(invoked[r]) >= 1

\* C16: every receiver has been started for the same items, once for each,
\* each start is a task of its own, and while the channel holds an item the
\* fan-out task can take it, whatever the earlier Receive tasks have done.
C16_EveryReceiverOnce ==
    /\ \A r, q \in receivers : invoked[r] = invoked[q]
    /\ \A r \in receivers :
          /\ NoDuplicates(invoked[r])
          /\ spawned[r] <= Len(invoked[r])
          /\ \A i \in 1..Len(mailItemChannel) :
                mailItemChannel[i].ID \notin Range(invoked[r])
    /\ mailItemChannel # <<>> => ENABLED FanOutReceive

\* C16 witness: one receiver has returned from none of its two Receive
\* tasks, another has returned from both of its own, one of them with an
\* error
C16_OthersGoOn ==
    \E r, q \in receivers :
        /\ Len(invoked[r]) = 2 /\ spawned[r] = 2
        /\ Len(invoked[q]) = 2 /\ spawned[q] = 0
        /\ storeErrors = 0

\* C17: once the accept task has received a kill signal it accepts no
\* connection, asks the pool for no worker and starts no session, and once
\* the fan-out task has received its kill signal it receives no item.
C17_TasksTerminate ==
    [][/\ acceptKilled => ~AcceptTaskActs
       /\ FanOutKilled => ~FanOutActs]_vars

\* C18: after the caller's one kill signal Dispatch eventually returns and
\* the wait group eventually reaches zero, and once the wait group is at
\* zero the accept task and the fan-out task have ended: they take no step.
C18_WaitGroupReleased ==
    /\ (killsLeft = 0) ~> (returned /\ wgCount = 0)
    /\ [][(wgCount = 0 /\ killsLeft = 0)
          => (~AcceptTaskActs /\ ~FanOutActs)]_vars

\* C19: when Dispatch returns, every session that was running when the kill
\* signal was sent has ended and its worker has rejoined the pool.
C19_SessionsDrained ==
    [][(returned' /\ ~returned) => sessionsAtKill = {}]_vars

\* C20: when the fan-out task calls wg.Done(), every item that was on the
\* channel when the kill signal was sent has been handed to every receiver.
C20_ChannelDrained ==
    [][killReceiverChannel' < killReceiverChannel
       => \A id \in atShutdown, r \in receivers : id \in Range(invoked[r])]_vars

\* C21: a receiver invocation adds one to the wait group and takes one off
\* again by the time it finishes, whether StoreMail succeeds or fails: a
\* step in which a Receive runs to its end leaves the counter as it was.
C21_WaitGroupBalanced ==
    [][\A r \in receivers, stored \in BOOLEAN :
          Receive(r, stored) => wgCount' = wgCount]_vars

\* C22: an error of handle.Accept() ends the accept loop: in a run whose
\* listener fails once, once it has failed (no failure is left) the accept
\* task accepts no connection, asks the pool for no worker and starts no
\* session.
C22_AcceptErrorFatal ==
    [][listenerErrors = 0 => ~AcceptTaskActs]_vars

\* the worker has just started a session: InitializeMailItem and SayHello
\* are done, no line is read yet
SessionStarted(w) == pc[w] = "loop" /\ replies[w] = <<"220">>

\* C23: at the start of every session, on a reused worker too, every field
\* of the worker's MailItem other than the fresh id is empty: sender,
\* recipients, subject, body, text body, HTML body, attachments and inline
\* attachments.
C23_FreshMailItem ==
    \A w \in Workers :
        SessionStarted(w) =>
            /\ Mail[w].FromAddress = ""
            /\ Mail[w].ToAddresses = <<>>
            /\ Mail[w].Subject = ""
            /\ Mail[w].Body = ""
            /\ Mail[w].TextBody = ""
            /\ Mail[w].HTMLBody = ""
            /\ Mail[w].Attachments = <<>>
            /\ Mail[w].InlineAttachments = <<>>

\* the body the body-selection rule gives a MailItem
SelectedBody(item) ==
    IF item.HTMLBody # "" THEN item.HTMLBody ELSE item.TextBody

\* C24: every MailItem on the channel has Body equal to its HTMLBody when
\* that is not empty and to its TextBody otherwise, for text, HTML and
\* multipart mails and after earlier sessions of the same worker.
C24_BodySelection ==
    \A i \in 1..Len(mailItemChannel) :
        mailItemChannel[i].Body = SelectedBody(mailItemChannel[i])

\* the ids of the MailItems ever put on the channel, in the order they were
\* put there: those the fan-out task has taken, then those that wait
EverSent ==
    IF receivers = {} THEN IDs(mailItemChannel)
    ELSE invoked[CHOOSE r \in receivers : TRUE] \o IDs(mailItemChannel)

\* the length of an id: the zero value of MailItem.ID is the empty text, an
\* id GenerateID returned has UUIDLength characters
IDLength(id) == IF id = 0 THEN 0 ELSE UUIDLength

RECURSIVE LeafTypes(_)
LeafTypes(messageParts) ==
    IF messageParts = <<>> THEN <<>>
    ELSE (IF Head(messageParts).parts = <<>>
          THEN <<Head(messageParts).ctype>>
          ELSE LeafTypes(Head(messageParts).parts))
         \o LeafTypes(Tail(messageParts))

\* the content types of the leaf parts of a source, in source order: a leaf
\* part is one whose type is not multipart/
RECURSIVE SourceLeafTypes(_)
SourceLeafTypes(parts) ==
    IF parts = <<>> THEN <<>>
    ELSE (IF Head(parts).ctype \in MultipartTypes
          THEN SourceLeafTypes(Head(parts).parts)
          ELSE <<Head(parts).ctype>>)
         \o SourceLeafTypes(Tail(parts))

\* well-formed source parts: a multipart/ part names a boundary, its body
\* is delimited by that boundary and holds at least one part, each of them
\* well-formed; any other part has a body without delimiter lines
RECURSIVE WellFormedParts(_)
WellFormedParts(parts) ==
    \A i \in 1..Len(parts) :
        IF parts[i].ctype \in MultipartTypes
        THEN /\ parts[i].boundary # ""
             /\ parts[i].delim = parts[i].boundary
             /\ parts[i].parts # <<>>
             /\ WellFormedParts(parts[i].parts)
        ELSE parts[i].delim = "" /\ parts[i].parts = <<>>

\* a well-formed multipart payload
WellFormedMultipart(block) ==
    /\ block.header = "ok" /\ NewHeaderSet(block.headers).err = NoError
    /\ block.sep
    /\ block.ctype \in MultipartTypes
    /\ WellFormedParts(<<block>>)

\* C26: for a well-formed multipart payload, the tree BuildMessages builds
\* on a fresh message part has as many leaves as the payload has leaf
\* parts, and the content types of the leaves, depth first, are those of
\* the leaf parts in source order.
C26_LeavesInSourceOrder ==
    [][\A w \in Workers, block \in DataBlocks :
          (/\ WorkLine(w, <<"DATA">>, block, FALSE)
           /\ WellFormedMultipart(block)
           /\ Mail[w].Message = <<>>)
          => LeafTypes(Mail'[w].Message) = SourceLeafTypes(block.parts)]_vars

\* in parsed parts, a part has children exactly if its type is multipart/
RECURSIVE ChildrenIffMultipart(_)
ChildrenIffMultipart(messageParts) ==
    \A i \in 1..Len(messageParts) :
        /\ (messageParts[i].parts # <<>>) <=> (messageParts[i].ctype \in MultipartTypes)
        /\ ChildrenIffMultipart(messageParts[i].parts)

\* C27: in every tree of parts the parser has built, a part has children if
\* and only if its Content-Type begins with multipart/.
C27_ChildrenOnlyOfMultipart ==
    \A w \in Workers : ChildrenIffMultipart(Mail[w].Message)

\* the text right of the first ":" of a line, trimmed; <<>> without a ":"
RightOfColon(line) ==
    IF Contains(line, ":")
    THEN TrimSpace(SubSeq(line, Index(line, ":") + 2, Len(line)))
    ELSE <<>>

\* the error the order verb, argument format, address validity gives a
\* line: InvalidCommand(expected) when the line does not begin with the
\* expected verb, InvalidCommandFormat(expected) when no value delimited by
\* ":" is present, InvalidEmail(addr) with the extracted, trimmed address
\* when the address is invalid, no error otherwise
ExpectedError(line, expected) ==
    LET addr == RightOfColon(line)
        components == GetEmailComponents(addr)
    IN  IF ~HasPrefix(ToUpper(TrimSpace(line)), expected)
        THEN ErrorOf("InvalidCommand", expected)
        ELSE IF addr = <<>> THEN ErrorOf("InvalidCommandFormat", expected)
        ELSE IF components.err # "nil" \/ ~IsValidEmail(components.Address)
             THEN ErrorOf("InvalidEmail", addr)
             ELSE NoError

\* C28: ProcessFrom and ProcessRecipient return the error of the first
\* failing check in the order verb, argument format, address validity, and
\* store the address only when all three pass: in a pass of the loop over a
\* MAIL or RCPT line the handler's error is the expected one, the worker's
\* handler fails the same way, and the mail item is changed only without an
\* error.
C28_FirstFailingCheck ==
    [][\A w \in Workers :
          /\ \A line \in MailLines :
                WorkLine(w, line, TextBlock, FALSE) =>
                    LET done == ProcessFrom(TrimSpace(line), Mail[w])
                    IN  /\ done.err = ExpectedError(line, MAIL_FROM)
                        /\ err'[w] = done.err.kind
                        /\ done.Mail = Mail'[w]
                        /\ done.err # NoError => Mail'[w] = Mail[w]
          /\ \A line \in RcptLines :
                WorkLine(w, line, TextBlock, FALSE) =>
                    LET done == ProcessRecipient(TrimSpace(line), Mail[w])
                    IN  /\ done.err = ExpectedError(line, RCPT_TO)
                        /\ err'[w] = done.err.kind
                        /\ done.Mail = Mail'[w]
                        /\ done.err # NoError => Mail'[w] = Mail[w]]_vars

\* the sanitizer leaves the text as it is: the text is sanitizer output
Sanitized(text) == SanitizeString(text) = text

\* C29: every MailItem on the channel has a sender, recipients, a subject,
\* a content type and a body that are the sanitizer's output: each is a
\* fixed point of SanitizeString.
C29_FieldsSanitized ==
    \A i \in 1..Len(mailItemChannel) :
        LET item == mailItemChannel[i]
        IN  /\ Sanitized(item.FromAddress)
            /\ \A j \in 1..Len(item.ToAddresses) : Sanitized(item.ToAddresses[j])
            /\ Sanitized(item.Subject)
            /\ Sanitized(item.ContentType)
            /\ Sanitized(item.Body)

\* the subject of a message without one
NoSubject == "(No Subject)"

\* C30: a MailItem on the channel that holds a message (DATA gave it a
\* Content-Type) whose Subject header is absent or blank has the subject
\* "(No Subject)": its subject is never the empty text.
C30_NoSubjectDefault ==
    \A i \in 1..Len(mailItemChannel) :
        LET item == mailItemChannel[i]
        IN  (item.ContentType # "" /\ item.Subject # NoSubject)
            => item.Subject # ""

\* a CRLF of the text that a blank follows: the fold of a continuation line
IsFold(s, i) == s[i] = CRLF /\ i < Len(s) /\ IsBlank(s[i + 1])

\* a blank of the text that stands in the run of blanks right after a fold
InFoldRun(s, i) ==
    /\ IsBlank(s[i])
    /\ \E f \in 1..(i - 1) : IsFold(s, f) /\ \A j \in (f + 1)..i : IsBlank(s[j])

\* the text from position i on, each fold replaced by one space, the blanks
\* of its run left out, every other token as it is
RECURSIVE Unfolded(_, _)
Unfolded(s, i) ==
    IF i > Len(s) THEN <<>>
    ELSE (IF InFoldRun(s, i) THEN <<>>
          ELSE IF IsFold(s, i) THEN <<" ">>
          ELSE <<s[i]>>) \o Unfolded(s, i + 1)

\* the header block of a DATA block, unfolded once
Once(block) == UnfoldHeaders(block.headers)

\* C31: header unfolding is idempotent: for the header block of every DATA
\* block the worker processes, unfolding it twice gives the text that
\* unfolding it once gives, parsing either gives the same header set, and
\* the unfolded text is the block with each CRLF that white space follows
\* replaced, with that white space, by a single space and nothing else
\* changed.
C31_UnfoldIdempotent ==
    [][\A w \in Workers, block \in DataBlocks :
          (command'[w] = "DATA" /\ WorkLine(w, <<"DATA">>, block, FALSE)) =>
              /\ UnfoldHeaders(Once(block)) = Once(block)
              /\ ParseHeaderSet(UnfoldHeaders(Once(block))) = ParseHeaderSet(Once(block))
              /\ Once(block) = Unfolded(block.headers, 1)]_vars

\* C31 witness: the worker has parsed the mail whose Content-Type header is
\* folded twice, and recorded its parts
C31_FoldedParsed ==
    \E w \in Workers :
        /\ command[w] = "DATA" /\ err[w] = "nil"
        /\ Mail[w].Subject = MultipartBlock.subject
        /\ Mail[w].Attachments # <<>>

\* the lines of the unfolded header block that hold text and no colon
ColonlessLines(headers) ==
    {line \in Range(Split(Unfolded(headers, 1), CRLF)) :
        TrimSpace(line) # <<>> /\ ~Contains(line, ":")}

\* C32: for a DATA block whose unfolded header block has a line without a
\* colon, parsing the header block fails with InvalidHeader for one of those
\* lines and returns no header item at all, and the worker answers the DATA
\* block with 554.
C32_InvalidHeaderFatal ==
    [][\A w \in Workers, block \in DataBlocks :
          (/\ WorkLine(w, <<"DATA">>, block, FALSE)
           /\ ColonlessLines(block.headers) # {})
          => /\ NewHeaderSet(block.headers).err.kind = "InvalidHeader"
             /\ NewHeaderSet(block.headers).err.arg \in ColonlessLines(block.headers)
             /\ NewHeaderSet(block.headers).HeaderItems = <<>>
             /\ "554" \in Range(replies'[w])]_vars

\* the parts the body extractor visits and does not descend into, depth
\* first: it descends into the parts whose type is multipart/
RECURSIVE VisitedLeaves(_)
VisitedLeaves(messageParts) ==
    IF messageParts = <<>> THEN <<>>
    ELSE (IF Head(messageParts).ctype \in MultipartTypes
          THEN VisitedLeaves(Head(messageParts).parts)
          ELSE <<Head(messageParts)>>)
         \o VisitedLeaves(Tail(messageParts))

\* a part that can become the body of the given type
IsBodyOf(part, type) == part.ctype = type /\ part.disp # "attachment"

\* the destination the extractor's rule gives leaf i of a message: the text
\* body for the first text/plain part that is no attachment, the HTML body
\* for the first such text/html part, else the attachments or the inline
\* attachments by its Content-Disposition
Destination(leaves, i) ==
    IF IsBodyOf(leaves[i], "text/plain")
       /\ \A j \in 1..(i - 1) : ~IsBodyOf(leaves[j], "text/plain")
    THEN "textBody"
    ELSE IF IsBodyOf(leaves[i], "text/html")
            /\ \A j \in 1..(i - 1) : ~IsBodyOf(leaves[j], "text/html")
         THEN "htmlBody"
         ELSE IF leaves[i].disp = "attachment" THEN "attachments"
              ELSE "inlineAttachments"

\* the bodies of the leaves from position i on that go to a destination, in
\* tree order
RECURSIVE BodiesFor(_, _, _)
BodiesFor(leaves, dest, i) ==
    IF i > Len(leaves) THEN <<>>
    ELSE (IF Destination(leaves, i) = dest THEN <<leaves[i].body>> ELSE <<>>)
         \o BodiesFor(leaves, dest, i + 1)

\* 1 for a body that is set, 0 for an empty one
IsSet(body) == IF body # "" THEN 1 ELSE 0

\* what the rule makes of the leaves of one message: the two bodies, the
\* attachments and the inline attachments, and as many of them as leaves
Extracted(mail, leaves) ==
    /\ <<mail.TextBody>> \o BodiesFor(leaves, "textBody", 1)
          \in {<<mail.TextBody, mail.TextBody>>, <<"">>}
    /\ <<mail.HTMLBody>> \o BodiesFor(leaves, "htmlBody", 1)
          \in {<<mail.HTMLBody, mail.HTMLBody>>, <<"">>}
    /\ mail.Attachments = BodiesFor(leaves, "attachments", 1)
    /\ mail.InlineAttachments = BodiesFor(leaves, "inlineAttachments", 1)
    /\ Len(leaves) = IsSet(mail.TextBody) + IsSet(mail.HTMLBody)
                     + Len(mail.Attachments) + Len(mail.InlineAttachments)

\* C33: when DATA has parsed a multipart message and recorded its parts,
\* every non-multipart part the extractor visits in the message's tree has
\* gone to exactly one destination by the extractor's rule, attachments and
\* inline attachments are in tree order, and the message has as many such
\* parts as bodies set plus attachments plus inline attachments.
C33_EveryLeafAssigned ==
    [][\A w \in Workers, block \in DataBlocks :
          (/\ WorkLine(w, <<"DATA">>, block, FALSE)
           /\ err'[w] = "nil"
           /\ block.ctype \notin {"text/plain", "text/html"})
          => Extracted(Mail'[w], VisitedLeaves(BuildMessages(block).MessageParts))]_vars

\* among the parts of a source, at any depth, there is a multipart/ part
\* whose own ParseMessages returns an error
RECURSIVE NestedFailure(_)
NestedFailure(parts) ==
    \E i \in 1..Len(parts) :
        /\ parts[i].ctype \in MultipartTypes
        /\ \/ ParseMessages(parts[i],
                 GetBoundaryFromHeaderString(parts[i]).boundary).err # "nil"
           \/ NestedFailure(parts[i].parts)

\* C34: when the parse of a nested multipart part, at any depth, returns an
\* error, BuildMessages returns an error to ProcessDATA and the DATA command
\* fails: the worker does not go on with a tree that lacks the subtree.
C34_NestedErrorPropagates ==
    [][\A w \in Workers, block \in DataBlocks :
          (/\ WorkLine(w, <<"DATA">>, block, FALSE)
           /\ block.header = "ok"
           /\ block.ctype \in MultipartTypes
           /\ NestedFailure(block.parts))
          => /\ BuildMessages(block).err # "nil"
             /\ err'[w] # "nil"]_vars

\* C35: GetCommandValue splits the line at the first delimiter only: for
\* every MAIL or RCPT line with a colon that the worker processes, the value
\* it returns is the trimmed text right of the first colon, later colons in
\* their place.
C35_SplitAtFirstDelimiter ==
    [][\A w \in Workers, line \in MailLines \cup RcptLines :
          (WorkLine(w, line, TextBlock, FALSE) /\ Contains(line, ":"))
          => GetCommandValue(TrimSpace(line), MAIL_FROM, ":").value
                = RightOfColon(line)]_vars

\* what GetCommandValue returns for a line the worker hands it
CommandValueOf(line) ==
    GetCommandValue(TrimSpace(line),
                    IF line \in MailLines THEN MAIL_FROM ELSE RCPT_TO, ":")

\* C36: for every MAIL or RCPT line the worker processes, GetCommandValue
\* returns InvalidCommandFormat when the line has no colon and when the
\* text after the colon is empty once trimmed, and it never returns an
\* empty value without an error.
C36_EmptyValueRejected ==
    [][\A w \in Workers, line \in MailLines \cup RcptLines :
          WorkLine(w, line, TextBlock, FALSE)
          => /\ RightOfColon(line) = <<>>
                => CommandValueOf(line).err = "InvalidCommandFormat"
             /\ ~(CommandValueOf(line).err = "nil"
                  /\ CommandValueOf(line).value = <<>>)]_vars

\* the sanitized address of a MAIL or RCPT line that passes the three checks
AddressOf(line) ==
    SanitizeString(GetEmailComponents(RightOfColon(line)).Address)

\* the recipients and the sender after a pass of the loop over a line, by
\* the commands of the transaction: a successful RCPT TO adds its address
\* at the end, a successful MAIL FROM sets the sender, RSET ends the
\* transaction, any other line and any failed command leaves both
RecipientsAfter(line, mail) ==
    IF line \in RcptLines /\ ExpectedError(line, RCPT_TO) = NoError
    THEN Append(mail.ToAddresses, AddressOf(line))
    ELSE IF GetCommandFromString(line).command = "RSET" THEN <<>>
    ELSE mail.ToAddresses

SenderAfter(line, mail) ==
    IF line \in MailLines /\ ExpectedError(line, MAIL_FROM) = NoError
    THEN AddressOf(line)
    ELSE mail.FromAddress

\* C37: toAddresses is the sequence of the sanitized addresses of the
\* successful RCPT TO commands of the current transaction, in the order
\* received, duplicates kept, and fromAddress that of the most recent
\* successful MAIL FROM: a session starts with no recipient, and every
\* command line other than DATA leaves the recipients and the sender the
\* transaction has after it.
C37_RecipientsOfTransaction ==
    [][\A w \in Workers :
          /\ SessionStarted(w)' => Mail'[w].ToAddresses = <<>>
          /\ \A line \in Lines \ {<<"DATA">>} :
                WorkLine(w, line, TextBlock, FALSE)
                => /\ Mail'[w].ToAddresses = RecipientsAfter(line, Mail[w])
                   /\ Mail'[w].FromAddress = SenderAfter(line, Mail[w])]_vars

\* the replies that refuse a command
RefusalReplies == {"500", "501", "502", "503", "550", "554"}

\* the MailItem shows that the transaction is not in RCPT_WAIT: it has no
\* sender or no recipient, so a successful MAIL FROM or RCPT TO is missing
NotInRcptWait(mail) == mail.FromAddress = "" \/ mail.ToAddresses = <<>>

\* C38: DATA is acted on only after a successful MAIL FROM and at least one
\* successful RCPT TO: a DATA line that arrives while the MailItem has no
\* sender or no recipient is answered with one 5xx reply, no 354 is sent,
\* the MailItem is left as it is and the session goes on; and every
\* MailItem on the channel has a sender and at least one recipient.
C38_DataOnlyAfterRcpt ==
    /\ [](\A i \in 1..Len(mailItemChannel) : ~NotInRcptWait(mailItemChannel[i]))
    /\ [][\A w \in Workers, block \in DataBlocks :
             (WorkLine(w, <<"DATA">>, block, FALSE) /\ NotInRcptWait(Mail[w]))
             => /\ Len(replies'[w]) = 1
                /\ replies'[w][1] \in RefusalReplies
                /\ Mail'[w] = Mail[w]
                /\ State'[w] = "WORKING"]_vars

\* C39: for every DATA command the worker sends, after the 354, exactly one
\* final reply: 250 when the command succeeded, 554 when it failed, whatever
\* the failure (header block, MIME parse, empty tree of parts).
C39_OneFinalReply ==
    [][\A w \in Workers, block \in DataBlocks :
          WorkLine(w, <<"DATA">>, block, FALSE)
          => replies'[w] = IF err'[w] = "nil" THEN <<"354", "250">>
                           ELSE <<"354", "554">>]_vars

\* the sessions started so far: those that have their id, and those whose
\* task has not yet taken it
SessionsStarted == (nextID - 1) + Cardinality({w \in Workers : pc[w] = "start"})

\* C40: when the pool returns an error for an accepted connection, Dispatch
\* closes the connection, starts no session for it and goes on accepting:
\* every accepted connection is held by the accept task, was given a
\* session or was closed; a step in which the accept task lets go of its
\* connection without starting a session closes it and touches no worker;
\* and after that step the accept task can accept the next connection.
C40_PoolErrorClosesConnection ==
    /\ [](accepted = closed + SessionsStarted + (IF pending THEN 1 ELSE 0))
    /\ [][(pending /\ ~pending' /\ active' = active)
          => /\ closed' = closed + 1
             /\ pc' = pc /\ State' = State /\ Connection' = Connection
             /\ pool' = pool
             /\ (accepted' < MaxConns /\ ~atSelect') => (ENABLED Accept)']_vars

\* C40 witness: the pool has returned an error for a connection, Dispatch
\* has closed it without starting a session, and the accept task holds the
\* connection it accepted next
C40_AcceptedAfterClose ==
    /\ closed = 1 /\ accepted = 2 /\ pending
    /\ SessionsStarted = 0 /\ active = 0

=============================================================================
